---- MODULE Spec2Model ----
(***************************************************************************)
(* Model of the social-media post generator:                               *)
(*   - the storage service (api/src/services/cosmos.js) in its in-memory   *)
(*     mode and its Cosmos-backed mode,                                    *)
(*   - the `data` HTTP handler (api/src/functions/data.js),                *)
(*   - the OpenAI service (api/src/services/openai.js) and the `chat`,     *)
(*     `extract-url` and `health` handlers (api/src/functions),            *)
(*   - the client data-sync hook useAzureData / useKV                      *)
(*     (src/hooks/useAzureData.tsx),                                       *)
(*   - the token cache of the OpenAI service under concurrent calls,       *)
(*   - the App component's generatePosts and history handlers              *)
(*     (src/App.tsx).                                                      *)
(***************************************************************************)
EXTENDS Integers, Sequences, FiniteSets, TLC

(***************************************************************************)
(* JavaScript values.  Every value is a record with the same three fields  *)
(* so that values of different JavaScript types can be compared:           *)
(*   t  the typeof-like tag, s  the text of a scalar (or the shape name    *)
(*   of an object), a  the elements of an array / the fields of an object. *)
(***************************************************************************)
J(t, s, a) == [t |-> t, s |-> s, a |-> a]
JUndef == J("undefined", "", <<>>)
JNull == J("null", "", <<>>)
JNum(n) == J("number", n, <<>>)
JStr(x) == J("string", x, <<>>)
JArr(elems) == J("array", "", elems)
JObj(shape, fields) == J("object", shape, fields)

\* JavaScript truthiness, as used by the `||` operator.
Truthy(v) ==
    ~ \/ v.t = "undefined"
      \/ v.t = "null"
      \/ (v.t = "number" /\ v.s = "0")
      \/ (v.t = "string" /\ v.s = "")
      \/ (v.t = "boolean" /\ v.s = "false")

\* a || b
Or(a, b) == IF Truthy(a) THEN a ELSE b

(***************************************************************************)
(* Bounds and input alphabets.                                             *)
(***************************************************************************)
\* number of distinct (key, userId) pairs a behaviour may write to
MaxPairs == 1

Placeholder == "https://your-cosmos-db.documents.azure.com:443/"
RealEndpoint == "https://real.documents.azure.com:443/"

\* process.env values; "" stands for an unset (or empty) variable
FunctionsEnvironments == {"", "Development", "Production"}
CosmosEndpoints == {"", Placeholder, RealEndpoint}
\* the environments the data endpoint is exercised under: a local development
\* machine with the placeholder settings, and a deployed Function App
DataEnvs ==
    { [functionsEnvironment |-> "Development", cosmosEndpoint |-> Placeholder],
      [functionsEnvironment |-> "Production", cosmosEndpoint |-> RealEndpoint] }

\* route parameter {key?}; "" stands for a missing key
\* ("x:saved-generations" is a generic key: the service has no special case for it)
Keys == {"", "selected-platforms", "saved-generations", "x:saved-generations"}
\* query parameter userId; "" stands for a missing (or empty) parameter
UserIds == {"", "default:x"}

Values ==
    { JNull,
      JNum("0"),
      JArr(<<JStr("a")>>),
      JObj("p", <<JArr(<<JArr(<<JStr("a")>>)>>)>>) }

\* request bodies: unparseable, the JSON text `null`, an object without a
\* value field, an object {value: X}
NoBody == [kind |-> "invalid", value |-> JUndef]
Bodies ==
    {NoBody, [kind |-> "null", value |-> JUndef], [kind |-> "object", value |-> JUndef]}
    \cup {[kind |-> "object", value |-> v] : v \in Values}

\* app.http('data', {methods: [...]}) admits only these methods
Methods == {"GET", "POST", "DELETE", "OPTIONS"}

Requests ==
    {[method |-> m, key |-> k, userId |-> u, body |-> NoBody] :
        m \in Methods \ {"POST"}, k \in Keys, u \in UserIds}
    \cup
    {[method |-> "POST", key |-> k, userId |-> u, body |-> b] :
        k \in Keys, u \in UserIds, b \in Bodies}

VARIABLES
    env,                    \* process.env as read by the constructor
    isLocalMode,            \* CosmosService.isLocalMode
    localStorage,           \* CosmosService.localStorage (Map)
    preferencesContainer,   \* Cosmos container 'preferences': <<id, userId>> -> value
    generationsContainer,   \* Cosmos container 'generations': <<id, userId>> -> value
    lastReq,                \* the last request made directly to the data endpoint
    lastResp,               \* and its response
    \* history of the requests made directly to the data endpoint
    everSet,                \* the (key, userId) pairs a POST has answered 200 for
    repeated                \* lastReq is a 200 POST identical to the 200 POST before it

serverVars ==
    <<env, isLocalMode, localStorage, preferencesContainer, generationsContainer,
      lastReq, lastResp, everSet, repeated>>

(***************************************************************************)
(* Maps (JavaScript Map, Cosmos container) as functions with a growing     *)
(* domain.                                                                 *)
(***************************************************************************)
EmptyMap == [x \in {} |-> JUndef]
MapHas(m, k) == k \in DOMAIN m
MapGet(m, k) == IF k \in DOMAIN m THEN m[k] ELSE JUndef
MapSet(m, k, v) == [x \in DOMAIN m \cup {k} |-> IF x = k THEN v ELSE m[x]]
MapDelete(m, k) == [x \in DOMAIN m \ {k} |-> m[x]]

\* the three stores of the service as one value
Db == [ls |-> localStorage, prefs |-> preferencesContainer, gens |-> generationsContainer]

\* a Cosmos document {id, userId, value, timestamp} as a JavaScript object.
\* The timestamp is not modelled: it is only read by ORDER BY, and the
\* handlers never create more than one document per user in a container
\* that is queried.
Item(id, userId, value) == JObj("item", <<JStr(id), JStr(userId), value>>)

\* result of a service call: the stores after it, the value returned, and
\* whether it threw
Ret(db, v) == [db |-> db, ret |-> v, err |-> FALSE]
Throw(db) == [db |-> db, ret |-> JUndef, err |-> TRUE]

(***************************************************************************)
(* CosmosService                                                           *)
(***************************************************************************)
LocalModeOf(e) ==
    LET isLocalDev == e.functionsEnvironment = "" \/ e.functionsEnvironment = "Development"
        hasRealEndpoint == e.cosmosEndpoint # "" /\ e.cosmosEndpoint # Placeholder
    IN  isLocalDev /\ ~hasRealEndpoint

getLocalKey(key, userId) == userId \o ":" \o key

\* fault: the Cosmos request fails with an error other than 404
getUserPreferences(db, local, userId, fault) ==
    IF local
    THEN Ret(db, Or(MapGet(db.ls, getLocalKey("selected-platforms", userId)), JArr(<<>>)))
    ELSE IF fault THEN Throw(db)
    ELSE \* a missing item reads as resource undefined or as a 404: both give []
         Ret(db, Or(MapGet(db.prefs, <<"selected-platforms", userId>>), JArr(<<>>)))

setUserPreferences(db, local, userId, platforms, fault) ==
    IF local
    THEN Ret([db EXCEPT !.ls = MapSet(@, getLocalKey("selected-platforms", userId), platforms)],
             platforms)
    ELSE IF fault THEN Throw(db)
    ELSE Ret([db EXCEPT !.prefs = MapSet(@, <<"selected-platforms", userId>>, platforms)],
             platforms)

\* SELECT * FROM c WHERE c.userId = @userId ORDER BY c.timestamp DESC
QueryGenerations(gens, userId) ==
    IF <<"saved-generations", userId>> \in DOMAIN gens
    THEN <<[id |-> "saved-generations", userId |-> userId,
            value |-> gens[<<"saved-generations", userId>>]]>>
    ELSE <<>>

getSavedGenerations(db, local, userId, fault) ==
    IF local
    THEN Ret(db, Or(MapGet(db.ls, getLocalKey("saved-generations", userId)), JArr(<<>>)))
    ELSE IF fault THEN Throw(db)
    ELSE LET resources == QueryGenerations(db.gens, userId)
         IN  Ret(db, JArr([i \in 1..Len(resources) |->
                              Or(resources[i].value,
                                 Item(resources[i].id, resources[i].userId,
                                      resources[i].value))]))

setSavedGenerations(db, local, userId, generations, fault) ==
    IF local
    THEN Ret([db EXCEPT !.ls = MapSet(@, getLocalKey("saved-generations", userId), generations)],
             generations)
    ELSE IF fault THEN Throw(db)
    ELSE Ret([db EXCEPT !.gens = MapSet(@, <<"saved-generations", userId>>, generations)],
             generations)

getValue(db, local, key, userId, fault) ==
    IF local
    THEN Ret(db, Or(MapGet(db.ls, getLocalKey(key, userId)), JNull))
    ELSE IF key = "selected-platforms" THEN getUserPreferences(db, local, userId, fault)
    ELSE IF key = "saved-generations" THEN getSavedGenerations(db, local, userId, fault)
    ELSE IF fault THEN Throw(db)
    ELSE IF MapHas(db.prefs, <<key, userId>>)
         THEN Ret(db, db.prefs[<<key, userId>>])     \* resource?.value
         ELSE Ret(db, JUndef) \* resource undefined; a 404 gives null: the handler maps both to null

setValue(db, local, key, value, userId, fault) ==
    IF local
    THEN Ret([db EXCEPT !.ls = MapSet(@, getLocalKey(key, userId), value)], value)
    ELSE IF key = "selected-platforms" THEN setUserPreferences(db, local, userId, value, fault)
    ELSE IF key = "saved-generations" THEN setSavedGenerations(db, local, userId, value, fault)
    ELSE IF fault THEN Throw(db)
    ELSE Ret([db EXCEPT !.prefs = MapSet(@, <<key, userId>>, value)], value)

\* returns a boolean, encoded as JavaScript true / false
JTrue == J("boolean", "true", <<>>)
JFalse == J("boolean", "false", <<>>)

deleteValue(db, local, key, userId, fault) ==
    IF local
    THEN LET localKey == getLocalKey(key, userId)
             existed == MapHas(db.ls, localKey)
         IN  Ret([db EXCEPT !.ls = MapDelete(@, localKey)], IF existed THEN JTrue ELSE JFalse)
    ELSE IF fault THEN Throw(db)
    ELSE IF MapHas(db.prefs, <<key, userId>>)
         THEN Ret([db EXCEPT !.prefs = MapDelete(@, <<key, userId>>)], JTrue)
         ELSE Ret(db, JFalse)                        \* error.code === 404

(***************************************************************************)
(* The data handler                                                        *)
(***************************************************************************)
\* the CORS headers every response of a handler carries
corsHeaders(allowMethods, allowHeaders) ==
    [contentType |-> "application/json", allowOrigin |-> "*",
     allowMethods |-> allowMethods, allowHeaders |-> allowHeaders]
dataHeaders == corsHeaders("GET, POST, DELETE, OPTIONS", "Content-Type, Authorization")

\* request.method === 'OPTIONS', the first test of every handler
isPreflight_never(method) == FALSE
isPreflight(method) == method = "OPTIONS"

\* a response: status, headers and the parsed JSON body (absent fields are
\* undefined)
Resp(status, success, error, value, deleted) ==
    [status |-> status, headers |-> dataHeaders, success |-> success, error |-> error,
     value |-> value, deleted |-> deleted]

EffectiveUser(req) == IF req.userId = "" THEN "default" ELSE req.userId

\* newValue === undefined
valueMissing_never(newValue) == FALSE
valueMissing(newValue) == newValue = JUndef

dataHandler(db, local, req, fault) ==
    IF isPreflight(req.method)
    THEN [db |-> db, resp |-> Resp(200, FALSE, "", JUndef, JUndef)]
    ELSE
    LET key == req.key
        userId == EffectiveUser(req)
    IN
    IF key = ""
    THEN [db |-> db, resp |-> Resp(400, FALSE, "Key parameter is required", JUndef, JUndef)]
    ELSE
    CASE req.method = "GET" ->
            LET r == getValue(db, local, key, userId, fault)
            IN  IF r.err
                THEN [db |-> r.db, resp |-> Resp(500, FALSE, "Internal server error", JUndef, JUndef)]
                ELSE [db |-> r.db, resp |-> Resp(200, TRUE, "", Or(r.ret, JNull), JUndef)]
      [] req.method = "POST" ->
            IF req.body.kind = "invalid"
            THEN [db |-> db, resp |-> Resp(400, FALSE, "Invalid JSON in request body", JUndef, JUndef)]
            ELSE IF req.body.kind = "null"
            \* destructuring null throws a TypeError, caught by the outer try
            THEN [db |-> db, resp |-> Resp(500, FALSE, "Internal server error", JUndef, JUndef)]
            ELSE IF valueMissing(req.body.value)
            THEN [db |-> db, resp |-> Resp(400, FALSE, "Value is required in request body", JUndef, JUndef)]
            ELSE LET r == setValue(db, local, key, req.body.value, userId, fault)
                 IN  IF r.err
                     THEN [db |-> r.db, resp |-> Resp(500, FALSE, "Internal server error", JUndef, JUndef)]
                     ELSE [db |-> r.db, resp |-> Resp(200, TRUE, "", r.ret, JUndef)]
      [] req.method = "DELETE" ->
            LET r == deleteValue(db, local, key, userId, fault)
            IN  IF r.err
                THEN [db |-> r.db, resp |-> Resp(500, FALSE, "Internal server error", JUndef, JUndef)]
                ELSE [db |-> r.db, resp |-> Resp(200, TRUE, "", JUndef, r.ret)]
      [] OTHER ->
            [db |-> db, resp |-> Resp(405, FALSE, "Method not allowed", JUndef, JUndef)]

(***************************************************************************)
(* The storage service behind the data endpoint, driven by arbitrary       *)
(* requests.                                                               *)
(***************************************************************************)
NoReq == [method |-> "", key |-> "", userId |-> "", body |-> NoBody]
NoResp == Resp(0, FALSE, "", JUndef, JUndef)

Pair(req) == <<req.key, EffectiveUser(req)>>

InitServer ==
    /\ env \in DataEnvs
    /\ isLocalMode = LocalModeOf(env)
    /\ localStorage = EmptyMap
    /\ preferencesContainer = EmptyMap
    /\ generationsContainer = EmptyMap
    /\ lastReq = NoReq
    /\ lastResp = NoResp
    /\ everSet = {}
    /\ repeated = FALSE

\* one request served by the handler, start to end
Serve(req, fault) ==
    LET out == dataHandler(Db, isLocalMode, req, fault)
        wrote == req.method = "POST" /\ out.resp.status = 200
    IN  /\ wrote => Cardinality(everSet \cup {Pair(req)}) <= MaxPairs
        /\ localStorage' = out.db.ls
        /\ preferencesContainer' = out.db.prefs
        /\ generationsContainer' = out.db.gens
        /\ lastReq' = req
        /\ lastResp' = out.resp
        /\ everSet' = IF wrote THEN everSet \cup {Pair(req)} ELSE everSet
        /\ repeated' = (wrote /\ lastReq = req /\ lastResp.status = 200)
        /\ UNCHANGED <<env, isLocalMode>>

DataRequest ==
    \E req \in Requests : \E fault \in BOOLEAN :
        /\ fault => ~isLocalMode
        /\ Serve(req, fault)



(***************************************************************************)
(* The OpenAI service (api/src/services/openai.js) as the chat handler     *)
(* uses it.                                                                *)
(***************************************************************************)
OpenAIPlaceholder == "https://your-openai-resource.openai.azure.com/"
OpenAIReal == "https://real.openai.azure.com/"
\* the endpoint texts that contain 'your-openai-resource'
includesPlaceholder(endpoint) == endpoint \in {OpenAIPlaceholder}

\* process.env of the OpenAI settings; "" stands for an unset (or empty) variable
OpenAIEnv(endpoint, gpt, mini, embedding) ==
    [endpoint |-> endpoint, gptDeployment |-> gpt, miniDeployment |-> mini,
     embeddingDeployment |-> embedding]
\* a development machine and a deployed Function App
DevOpenAIEnv == OpenAIEnv(OpenAIPlaceholder, "gpt-4o", "gpt-4o-mini", "text-embedding-3-small")
ProdOpenAIEnv == OpenAIEnv(OpenAIReal, "gpt-4o", "gpt-4o-mini", "text-embedding-3-small")
OpenAIEnvs ==
    { DevOpenAIEnv, ProdOpenAIEnv,
      OpenAIEnv("", "gpt-4o", "gpt-4o-mini", "text-embedding-3-small"),
      OpenAIEnv(OpenAIReal, "", "gpt-4o-mini", "text-embedding-3-small"),
      OpenAIEnv(OpenAIReal, "gpt-4o", "", "text-embedding-3-small"),
      OpenAIEnv(OpenAIReal, "gpt-4o", "gpt-4o-mini", "") }

\* OpenAIService constructor: isLocalMode
OpenAILocalModeOf(e) == e.endpoint = "" \/ includesPlaceholder(e.endpoint)

\* what one call of the completion path meets: the token and the completion
\* arrive, the credential provider fails, the request fails, or the endpoint
\* answers with a non-OK status
ApiOutcomes == {"ok", "tokenFailed", "fetchFailed", "notOk"}

\* String.prototype.replace(/[^a-zA-Z0-9]/g, '')
Alnum ==
    {"a","b","c","d","e","f","g","h","i","j","k","l","m","n","o","p","q","r","s","t",
     "u","v","w","x","y","z","A","B","C","D","E","F","G","H","I","J","K","L","M","N",
     "O","P","Q","R","S","T","U","V","W","X","Y","Z","0","1","2","3","4","5","6","7",
     "8","9"}
RECURSIVE removeNonAlnum(_)
removeNonAlnum(text) ==
    IF Len(text) = 0 THEN ""
    ELSE LET c == SubSeq(text, 1, 1)
             rest == removeNonAlnum(SubSeq(text, 2, Len(text)))
         IN  IF c \in Alnum THEN c \o rest ELSE rest

\* the number a numeral denotes
numberOf(text) == CHOOSE n \in 0..200 : ToString(n) = text

\* content.length (-1 for a value without the property); an object of shape
\* "length" is {length: n}
lengthOf(v) ==
    IF v.t = "string" THEN Len(v.s)
    ELSE IF v.t = "array" THEN Len(v.a)
    ELSE IF v.t = "object" /\ v.s = "length" THEN numberOf(v.a[1].s)
    ELSE -1

\* `${v}`: the text a template literal gives a value
RECURSIVE templateText(_), joinTexts(_)
templateText(v) ==
    IF v.t \in {"string", "number", "boolean", "undefined", "null"}
    THEN (IF v.t \in {"undefined", "null"} THEN v.t ELSE v.s)
    ELSE IF v.t = "array" THEN joinTexts(v.a)
    ELSE "[object Object]"
joinTexts(q) ==
    IF Len(q) = 0 THEN ""
    ELSE IF Len(q) = 1 THEN templateText(q[1])
    ELSE templateText(q[1]) \o "," \o joinTexts(Tail(q))

\* stand-ins for the two-emoji prefixes of platformEmojis
platformEmojis ==
    [p \in {"linkedin", "instagram", "twitter", "facebook"} |-> "(" \o p \o ")"]

\* result of a call that returns a text or throws an Error with a message
Returns(text) == [err |-> FALSE, text |-> text, message |-> ""]
Throws(message) == [err |-> TRUE, text |-> "", message |-> message]

generateMockPost(content, platform, platformConfig) ==
    LET emoji == IF platform \in DOMAIN platformEmojis THEN platformEmojis[platform]
                 ELSE "(phone)"
        tag == removeNonAlnum(platformConfig.name)
        compose(truncatedContent) ==
            emoji \o " Here's a " \o platformConfig.name \o " post based on: \""
                  \o truncatedContent
                  \o "\" \n\n[This is a mock response for local development] \n\n#SocialMedia #"
                  \o tag
    IN  IF lengthOf(content) > 100
        THEN IF content.t = "string"
             THEN Returns(compose(SubSeq(content.s, 1, 100) \o "..."))
             ELSE Throws("content.substring is not a function")
        ELSE Returns(compose(templateText(content)))

\* the text the completion endpoint produces for a platform
Completion(platform) == "Generated " \o platform \o " post"

\* one call of generateSocialMediaPost; outcome is what the completion path
\* meets when the service is not in mock mode
generateSocialMediaPost(content, platform, platformConfig, local, outcome) ==
    IF local THEN generateMockPost(content, platform, platformConfig)
    ELSE IF outcome = "ok" THEN Returns(Completion(platform))
    ELSE \* catch: fallback to the mock response
         generateMockPost(content, platform, platformConfig)

(***************************************************************************)
(* The stateless handlers: chat, extract-url and health.                   *)
(***************************************************************************)
chatHeaders == corsHeaders("POST, OPTIONS", "Content-Type, Authorization")
extractUrlHeaders == corsHeaders("POST, OPTIONS", "Content-Type, Authorization")
healthHeaders == corsHeaders("GET, OPTIONS", "Content-Type")
NoHeaders == corsHeaders("", "")

\* a response of one of the three handlers: status, headers and the fields
\* of the parsed JSON body (a field the body lacks keeps its value here)
ApiResp(status, headers) ==
    [status |-> status, headers |-> headers, success |-> FALSE, error |-> "",
     message |-> "", posts |-> EmptyMap, isUrl |-> JUndef, platformCount |-> -1,
     extractedContent |-> "", healthStatus |-> "", missingEnvVars |-> {}]

\* a parsed request body: kind "invalid" (request.json() rejects), "null"
\* (the JSON text null) or "object" with the fields the handlers read
ApiBody(kind, content, platforms, isUrl, url) ==
    [kind |-> kind, content |-> content, platforms |-> platforms, isUrl |-> isUrl,
     url |-> url]
InvalidBody == ApiBody("invalid", JUndef, JUndef, JUndef, JUndef)
NullBody == ApiBody("null", JUndef, JUndef, JUndef, JUndef)

platformConfigs_withoutTwitter ==
    [p \in {"linkedin", "instagram", "facebook"} |->
        CASE p = "linkedin" -> [name |-> "LinkedIn", maxLength |-> 3000]
          [] p = "instagram" -> [name |-> "Instagram", maxLength |-> 2200]
          [] p = "facebook" -> [name |-> "Facebook", maxLength |-> 63206]]
platformConfigs ==
    [p \in {"linkedin", "instagram", "twitter", "facebook"} |->
        CASE p = "linkedin" -> [name |-> "LinkedIn", maxLength |-> 3000]
          [] p = "instagram" -> [name |-> "Instagram", maxLength |-> 2200]
          [] p = "twitter" -> [name |-> "X (Twitter)", maxLength |-> 280]
          [] p = "facebook" -> [name |-> "Facebook", maxLength |-> 63206]]

\* a text of 101 characters, and the object {length: 101}
LongText ==
    "0123456789012345678901234567890123456789012345678901234567890123456789012345678901234567890123456789X"
LengthOnly == JObj("length", <<JNum("101")>>)
\* content fields: missing, empty, a text, a text longer than the 100
\* characters generateMockPost quotes, and a value that has a length above
\* 100 but is no string
Contents == {JUndef, JStr(""), JStr("hello"), JStr(LongText), LengthOnly}

\* longest platforms array
MaxPlatforms == 2
\* the identifiers requests name ("tiktok" is not a key of platformConfigs)
RequestedIds == {"linkedin", "twitter", "tiktok"}
RECURSIVE ListsUpTo(_)
ListsUpTo(n) ==
    IF n = 0 THEN {<<>>}
    ELSE LET shorter == ListsUpTo(n - 1)
         IN  shorter \cup {Append(q, p) : q \in {x \in shorter : Len(x) = n - 1},
                                          p \in RequestedIds}
\* platforms arrays
PlatformLists == ListsUpTo(MaxPlatforms)
\* the length of the longest platforms array
LongestList == MaxPlatforms
\* platforms fields: missing, a string, an array
PlatformsValues ==
    {JUndef, JStr("linkedin")}
    \cup {JArr([i \in 1..Len(q) |-> JStr(q[i])]) : q \in PlatformLists}
IsUrlValues == {JFalse, JTrue}

ChatBodies ==
    {InvalidBody, NullBody}
    \cup {ApiBody("object", c, p, u, JUndef) :
            c \in Contents, p \in PlatformsValues, u \in IsUrlValues}
\* app.http('chat', {methods: ['POST', 'OPTIONS']})
ChatRequests == {[method |-> m, body |-> b] : m \in {"POST", "OPTIONS"}, b \in ChatBodies}

\* the record of one generateSocialMediaPost call made by the handler
GenCall(platform, r) ==
    [platform |-> platform, threw |-> r.err, post |-> r.text, message |-> r.message]

\* try { posts[platform] = post } catch (error) { posts[platform] = `Error ...` }
postEntry_empty(platform, r) == r.text
postEntry(platform, r) ==
    IF r.err THEN "Error generating post for " \o platform \o ": " \o r.message
    ELSE r.text

\* for (const platform of platforms) { ... }: the posts object and the calls
\* made, given what each call's completion path meets
RECURSIVE chatLoop(_, _, _, _, _, _)
chatLoop(content, platforms, local, outcomes, posts, made) ==
    IF Len(platforms) = 0 THEN [posts |-> posts, calls |-> made]
    ELSE
    LET platform == Head(platforms).s
        rest == Tail(platforms)
    IN  IF platform \notin DOMAIN platformConfigs
        THEN chatLoop(content, rest, local, outcomes, posts, made)     \* continue
        ELSE LET r == generateSocialMediaPost(content, platform, platformConfigs[platform],
                                              local, outcomes[Len(made) + 1])
             IN  chatLoop(content, rest, local, outcomes,
                          MapSet(posts, platform, postEntry(platform, r)),
                          Append(made, GenCall(platform, r)))

chatValidation_contentOnly(content, platforms) == ~Truthy(content)
chatValidation(content, platforms) ==
    \/ ~Truthy(content)
    \/ ~Truthy(platforms)
    \/ platforms.t # "array"
    \/ Len(platforms.a) = 0

chatHandler(req, local, outcomes) ==
    IF isPreflight(req.method)
    THEN [resp |-> ApiResp(200, chatHeaders), calls |-> <<>>]
    ELSE IF req.body.kind # "object"
    \* request.json() rejects, or destructuring null throws: the outer catch
    THEN [resp |-> [ApiResp(500, chatHeaders) EXCEPT !.error = "Internal server error"],
          calls |-> <<>>]
    ELSE
    LET content == req.body.content
        platforms == req.body.platforms
    IN  IF chatValidation(content, platforms)
        THEN [resp |-> [ApiResp(400, chatHeaders) EXCEPT
                           !.error = "Missing required fields: content and platforms array"],
              calls |-> <<>>]
        ELSE LET out == chatLoop(content, platforms.a, local, outcomes, EmptyMap, <<>>)
             IN  [resp |-> [ApiResp(200, chatHeaders) EXCEPT
                               !.success = TRUE,
                               !.posts = out.posts,
                               !.isUrl = req.body.isUrl,
                               !.platformCount = Len(platforms.a)],
                  calls |-> out.calls]

\* String.prototype.trim()
Whitespace == {" ", "\n", "\t", "\r"}
RECURSIVE trimStart(_), trimEnd(_)
trimStart(text) ==
    IF Len(text) > 0 /\ SubSeq(text, 1, 1) \in Whitespace
    THEN trimStart(SubSeq(text, 2, Len(text)))
    ELSE text
trimEnd(text) ==
    IF Len(text) > 0 /\ SubSeq(text, Len(text), Len(text)) \in Whitespace
    THEN trimEnd(SubSeq(text, 1, Len(text) - 1))
    ELSE text
trim(text) == trimEnd(trimStart(text))

\* url fields: missing, empty, a text that is no URL, a number, a URL
WellFormedUrl == "https://example.com/article"
Urls == {JUndef, JStr(""), JStr("not a url"), JNum("5"), JStr(WellFormedUrl)}
\* new URL(url): the parsed URL, or a TypeError for a text that is no URL
newURL_lenient(url) == [ok |-> TRUE, hostname |-> "example.com"]
newURL(url) ==
    IF url = JStr(WellFormedUrl) THEN [ok |-> TRUE, hostname |-> "example.com"]
    ELSE [ok |-> FALSE, hostname |-> ""]

\* a fetched page, as the parts the handler's patterns find in its HTML: the
\* trimmed <title> text, the trimmed meta description, and the text left
\* once scripts, styles and tags are removed and whitespace is normalised
Page(title, description, text) ==
    [title |-> title, description |-> description, text |-> text]
NoPage == Page("", "", "")
\* texts of 10, 100 and 1501 characters
Text10 == "0123456789"
Text100 ==
    Text10 \o Text10 \o Text10 \o Text10 \o Text10 \o Text10 \o Text10 \o Text10
           \o Text10 \o Text10
Text1501 ==
    Text100 \o Text100 \o Text100 \o Text100 \o Text100 \o Text100 \o Text100 \o Text100
            \o Text100 \o Text100 \o Text100 \o Text100 \o Text100 \o Text100 \o Text100
            \o "X"
Pages ==
    { NoPage,
      Page("A title", "", ""),
      Page("A title", "A description", "Some text"),
      Page("", "", Text1501) }

\* what the outbound fetch meets: the 10 second timeout aborts it, the
\* network fails, the server answers with a non-OK status, or with a page
FetchResult(kind, page) == [kind |-> kind, page |-> page]
FetchResults ==
    {FetchResult(k, NoPage) : k \in {"timeout", "networkError", "notOk"}}
    \cup {FetchResult("ok", p) : p \in Pages}

ExtractBodies ==
    {InvalidBody, NullBody}
    \cup {ApiBody("object", JUndef, JUndef, JUndef, u) : u \in Urls}
\* app.http('extractUrl', {methods: ['POST', 'OPTIONS']})
ExtractRequests ==
    {[method |-> m, body |-> b] : m \in {"POST", "OPTIONS"}, b \in ExtractBodies}

\* the text composed from a page
extractedContentOf(page, hostname) ==
    LET maxLength == 1500
        content == IF Len(page.text) > maxLength
                   THEN SubSeq(page.text, 1, maxLength) \o "..."
                   ELSE page.text
        withTitle == IF page.title # "" THEN "Title: " \o page.title \o "\n\n" ELSE ""
        withDescription ==
            IF page.description # ""
            THEN withTitle \o "Description: " \o page.description \o "\n\n"
            ELSE withTitle
        composed == IF content # "" THEN withDescription \o "Content: " \o content
                    ELSE withDescription
    IN  IF trim(composed) = ""
        THEN trim("Content from " \o hostname
                  \o ": Unable to extract meaningful content from this page.")
        ELSE trim(composed)

urlMissing(url) == ~Truthy(url)

\* fetched: the handler called fetch
extractUrlHandler(req, result) ==
    IF isPreflight(req.method)
    THEN [resp |-> ApiResp(200, extractUrlHeaders), fetched |-> FALSE]
    ELSE IF req.body.kind # "object"
    \* request.json() rejects, or destructuring null throws: the outer catch
    THEN [resp |-> [ApiResp(500, extractUrlHeaders) EXCEPT
                       !.error = "Failed to extract content from URL"],
          fetched |-> FALSE]
    ELSE
    LET url == req.body.url
        parsedUrl == newURL(url)
    IN  IF urlMissing(url)
        THEN [resp |-> [ApiResp(400, extractUrlHeaders) EXCEPT !.error = "URL is required"],
              fetched |-> FALSE]
        ELSE IF ~parsedUrl.ok
        THEN [resp |-> [ApiResp(400, extractUrlHeaders) EXCEPT !.error = "Invalid URL format"],
              fetched |-> FALSE]
        ELSE IF result.kind = "notOk"
        THEN [resp |-> [ApiResp(400, extractUrlHeaders) EXCEPT
                           !.error = "Failed to fetch URL: 404 Not Found"],
              fetched |-> TRUE]
        ELSE IF result.kind # "ok"
        THEN [resp |-> [ApiResp(400, extractUrlHeaders) EXCEPT
                           !.error = "Failed to fetch URL content",
                           !.message = result.kind],
              fetched |-> TRUE]
        ELSE [resp |-> [ApiResp(200, extractUrlHeaders) EXCEPT
                           !.success = TRUE,
                           !.extractedContent =
                               extractedContentOf(result.page, parsedUrl.hostname)],
              fetched |-> TRUE]

\* process.env as the health handler reads it
requiredEnvVars ==
    <<"AZURE_OPENAI_ENDPOINT", "AZURE_COSMOS_ENDPOINT", "AZURE_OPENAI_GPT_DEPLOYMENT",
      "AZURE_OPENAI_GPT_MINI_DEPLOYMENT", "AZURE_OPENAI_EMBEDDING_DEPLOYMENT">>
processEnv(e, oe) ==
    [name \in {requiredEnvVars[i] : i \in 1..Len(requiredEnvVars)} |->
        CASE name = "AZURE_OPENAI_ENDPOINT" -> oe.endpoint
          [] name = "AZURE_COSMOS_ENDPOINT" -> e.cosmosEndpoint
          [] name = "AZURE_OPENAI_GPT_DEPLOYMENT" -> oe.gptDeployment
          [] name = "AZURE_OPENAI_GPT_MINI_DEPLOYMENT" -> oe.miniDeployment
          [] name = "AZURE_OPENAI_EMBEDDING_DEPLOYMENT" -> oe.embeddingDeployment]

\* app.http('health', {methods: ['GET', 'OPTIONS']})
HealthRequests == {[method |-> m, body |-> InvalidBody] : m \in {"GET", "OPTIONS"}}

\* !process.env[envVar]
envMissing_placeholder(value) == value \in {"", Placeholder, OpenAIPlaceholder}
envMissing(value) == value = ""

healthHandler(req, penv) ==
    IF isPreflight(req.method) THEN ApiResp(200, healthHeaders)
    ELSE
    LET missingEnvVars == {name \in DOMAIN penv : envMissing(penv[name])}
        status == IF missingEnvVars # {} THEN "degraded" ELSE "healthy"
        statusCode == IF status = "healthy" THEN 200 ELSE 503
    IN  [ApiResp(statusCode, healthHeaders) EXCEPT
            !.healthStatus = status,
            !.missingEnvVars = missingEnvVars]

VARIABLES
    openaiEnv,      \* process.env: the OpenAI settings
    openaiLocal,    \* OpenAIService.isLocalMode
    apiCall         \* the request to chat, extract-url or health being served:
                    \* the request, its response, the generateSocialMediaPost
                    \* calls made for it, whether fetch was called and what
                    \* the fetch met

gatewayVars == <<openaiEnv, openaiLocal, apiCall>>

NoApiCall ==
    [handler |-> "none", req |-> [method |-> "", body |-> InvalidBody],
     resp |-> ApiResp(0, NoHeaders), calls |-> <<>>, fetched |-> FALSE,
     result |-> FetchResult("none", NoPage)]

\* the OpenAI service as constructed on the machine the storage service runs
\* on, before any request to the three handlers
InitGatewayIdle ==
    /\ openaiEnv = (IF LocalModeOf(env) THEN DevOpenAIEnv ELSE ProdOpenAIEnv)
    /\ openaiLocal = OpenAILocalModeOf(openaiEnv)
    /\ apiCall = NoApiCall

(***************************************************************************)
(* Further state: the token cache of the OpenAI service with the           *)
(* generateSocialMediaPost calls under way, and the state of the App       *)
(* component.  Their operations follow the handlers below.                 *)
(***************************************************************************)
VARIABLES
    tokenCache,       \* this.tokenCache: 0 for null, else the token
    tokenExpiry,      \* this.tokenExpiry: 0 for null, else a time
    now,              \* Date.now()
    responses,        \* the responses of credential.getToken so far, in order
    pending           \* the generateSocialMediaPost calls under way, by slot

tokenVars == <<tokenCache, tokenExpiry, now, responses, pending>>

VARIABLES
    isGenerating,     \* useState isGenerating
    appError,         \* useState error of App
    generatedPosts,   \* useState generatedPosts: the generation whose posts are shown
    generating,       \* the generatePosts invocation under way
    generated,        \* number of generatePosts invocations that reached the chat call
    editedDuring,     \* history: the list after the last delete / clear made
                      \* while an invocation was under way
    ended             \* history: how the invocations ended, in order

appVars ==
    <<isGenerating, appError, generatedPosts, generating, generated, editedDuring,
      ended>>

\* number of generateSocialMediaPost calls under way at a time
MaxConcurrent == 2
\* the clock runs from 1 to MaxTime
MaxTime == 3
\* number of tokens the credential provider issues in a behaviour
MaxTokens == 2

Slots == 1..MaxConcurrent

\* a slot without a call
NoPending ==
    [pc |-> "none", content |-> JUndef, platform |-> "", token |-> 0, fromCache |-> FALSE,
     tokenRequests |-> 0, completions |-> 0, met |-> "", result |-> Returns("")]

\* the OpenAI service as constructed, before any call
InitTokenIdle ==
    /\ tokenCache = 0
    /\ tokenExpiry = 0
    /\ now = 1
    /\ responses = <<>>
    /\ pending = [i \in Slots |-> NoPending]

\* no generatePosts invocation is under way
NoGeneration == [stage |-> "none", id |-> "", isUrl |-> FALSE, closure |-> JUndef]

\* App as first rendered: useState('') / useState(false) / useState({})
InitAppIdle ==
    /\ isGenerating = FALSE
    /\ appError = ""
    /\ generatedPosts = ""
    /\ generating = NoGeneration
    /\ generated = 0
    /\ editedDuring = JUndef
    /\ ended = <<>>

(***************************************************************************)
(* The client data-sync hook: useAzureData and its useKV wrapper, for one  *)
(* mounted instance.  Its requests are served by the data handler above.   *)
(***************************************************************************)
\* longest list the user interface builds
MaxLen == 2
\* number of setValue calls in a behaviour
MaxWrites == 2
\* number of remote reads after which the model stops issuing more
MaxReads == 2

\* list elements (platform identifiers)
Elems == {"a", "b"}

RECURSIVE SeqsUpTo(_)
SeqsUpTo(n) ==
    IF n = 0 THEN {<<>>}
    ELSE LET shorter == SeqsUpTo(n - 1)
         IN  shorter \cup {Append(q, JStr(e)) : q \in {x \in shorter : Len(x) = n - 1}, e \in Elems}

\* the values the hook holds: lists of platform identifiers
HookValues == {JArr(q) : q \in SeqsUpTo(MaxLen)}
\* useKV('selected-platforms', [])
defaultValue == JArr(<<>>)
\* what earlier sessions may have left behind in the browser and at the service
EarlierLocal == {JArr(<<>>), JArr(<<JStr("b")>>)}
EarlierRemote == {JArr(<<JStr("b")>>)}
\* the key the hook is mounted for (App's platform selection)
HookKeys == {"selected-platforms"}
\* the userId argument's default
HookUser == "default"

\* number of generatePosts invocations in a behaviour
MaxGenerations == 1
\* the ids of saved generations: "g0" was saved by an earlier session, "g1",
\* "g2", ... are those of this session's invocations, in order
GenerationId(n) == "g" \o ToString(n)
GenerationIds == {GenerationId(n) : n \in 0..MaxGenerations}
\* the values the hook holds for 'saved-generations': lists of generations,
\* each stood for by its id
AppValues ==
    {JArr([i \in 1..Len(q) |-> JStr(q[i])]) :
        q \in {x \in UNION {[1..n -> GenerationIds] : n \in 0..(MaxGenerations + 1)} :
                  \A i, j \in DOMAIN x : x[i] = x[j] => i = j}}

\* JSON.stringify: the text of a value
RECURSIVE JSONstringify(_), JoinElems(_)
JSONstringify(v) ==
    CASE v.t = "null" -> "null"
      [] v.t \in {"number", "boolean"} -> v.s
      [] v.t = "string" -> "\"" \o v.s \o "\""
      [] v.t = "array" -> "[" \o JoinElems(v.a) \o "]"
      [] v.t = "object" -> "{\"" \o v.s \o "\":[" \o JoinElems(v.a) \o "]}"
      [] OTHER -> "undefined"     \* what setItem stores for an undefined text
JoinElems(q) ==
    IF Len(q) = 0 THEN ""
    ELSE IF Len(q) = 1 THEN JSONstringify(q[1])
    ELSE JSONstringify(q[1]) \o "," \o JoinElems(Tail(q))

\* JSON.parse over the values that can reach the browser: the value whose
\* text this is; any other text does not parse
Universe == HookValues \cup AppValues \cup {JNull}
TextOf == [v \in Universe |-> JSONstringify(v)]
ValueOf == [t \in {TextOf[v] : v \in Universe} |-> CHOOSE v \in Universe : TextOf[v] = t]
JSONparse(text) ==
    IF text \in DOMAIN ValueOf THEN [ok |-> TRUE, value |-> ValueOf[text]]
    ELSE [ok |-> FALSE, value |-> JUndef]

\* updater functions passed to the setter (App.handlePlatformToggle)
RemoveElem(q, e) == SelectSeq(q, LAMBDA x : x # JStr(e))
Updaters == {[op |-> "append", e |-> "a"], [op |-> "remove", e |-> "b"]}
\* (variant: the new generation goes to the end of the list)
prepend_atEnd(newGeneration, prev) == Append(prev, newGeneration)
\* App.generatePosts: prev => [newGeneration, ...prev]
prepend(newGeneration, prev) == <<newGeneration>> \o prev
ApplyUpdater(f, prev) ==
    IF f.op = "append" THEN JArr(Append(prev.a, JStr(f.e)))
    ELSE IF f.op = "prepend" THEN JArr(prepend(JStr(f.e), prev.a))
    ELSE JArr(RemoveElem(prev.a, f.e))
\* values passed to the setter directly (App.clearAllHistory)
DirectValues == {JArr(<<>>)}

VARIABLES
    hookKey,          \* the key argument
    browserStorage,   \* window.localStorage item for the key ("" when absent)
    data,             \* useState data
    loading,          \* useState loading
    error,            \* useState error
    hasTriedApi,      \* useState hasTriedApi
    rendered,         \* what the closures of the last render captured
    effectPending,    \* the mount effect is scheduled to run
    inflight,         \* fetches awaiting their continuation
    reads,            \* number of remote reads issued (numbers the GET fetches)
    calls,            \* number of setter calls (numbers the POST fetches)
    lastCall,         \* history: the last setter call
    raced,            \* history: a setter call was made while a write was in flight
    lastDone,         \* history: the fetch whose continuation ran last, and its outcome
    rejected,         \* history: a promise of loadData / saveData rejected
    cacheAtMount      \* history: the cached item the instance was mounted with

hookVars ==
    <<hookKey, browserStorage, data, loading, error, hasTriedApi, rendered,
      effectPending, inflight, reads, calls, lastCall, raced, lastDone, rejected,
      cacheAtMount>>

vars == <<serverVars, hookVars, gatewayVars, tokenVars, appVars>>

getLocalStorageValue(item, default) ==
    IF item = "" THEN default
    ELSE LET r == JSONparse(item)
         IN  IF r.ok THEN r.value ELSE default

setLocalStorageValue(value) == JSONstringify(value)

NoDone == [method |-> "", outcome |-> ""]
NoCall == [kind |-> "none", value |-> JUndef, expected |-> JUndef]

HookUrl(method, body) ==
    [method |-> method, key |-> hookKey, userId |-> HookUser, body |-> body]

\* a fetch in flight: stage "sent" until the handler has served it, then
\* "answered" with the response on its way back
Fetch(id, method, value) ==
    [id |-> id, method |-> method, value |-> value, stage |-> "sent", resp |-> NoResp]

(***************************************************************************)
(* useAzureData                                                            *)
(***************************************************************************)
\* (variant: the latch is never set)
loadDataLatch_missing == FALSE

\* loadData, up to the fetch: setHasTriedApi(true)
loadDataLatch == TRUE

\* the state a continuation leaves: data, the cached item, error, and whether
\* the async function's promise rejects
After(d, item, e, rejects) == [data |-> d, item |-> item, error |-> e, rejects |-> rejects]

\* loadData after a response with ok status
loadDataResult(result, curData, curItem, curError) ==
    IF result.success /\ result.value # JNull
    THEN After(result.value, setLocalStorageValue(result.value), curError, FALSE)
    ELSE After(defaultValue, curItem, curError, FALSE)

\* (variant: the catch block reports the failure in the error state)
loadDataCatch_surfaces(curData, curItem, curError) ==
    After(getLocalStorageValue(curItem, defaultValue), curItem, JStr("API not available"), FALSE)

\* loadData's catch block
loadDataCatch(curData, curItem, curError) ==
    After(getLocalStorageValue(curItem, defaultValue), curItem, JNull, FALSE)

\* (variant: the optimistic update skips the local cache)
saveDataOptimistic_memoryOnly(newData, curData, curItem) ==
    After(newData, curItem, JNull, FALSE)

\* saveData, up to the fetch: setError(null) and the optimistic update
saveDataOptimistic(newData, curData, curItem) ==
    After(newData, setLocalStorageValue(newData), JNull, FALSE)

\* (variant: the catch block undoes the optimistic update)
saveDataCatch_rollback(curData, curItem, curError) ==
    After(defaultValue, "", curError, FALSE)

\* saveData's catch block: only a console.warn
saveDataCatch(curData, curItem, curError) ==
    After(curData, curItem, curError, FALSE)

\* useKV.setDataWrapper: the value handed to saveData
setDataWrapper(arg, closureData) ==
    IF arg.kind = "updater" THEN ApplyUpdater(arg.f, closureData) ELSE arg.value

SetterArgs ==
    {[kind |-> "updater", f |-> f, value |-> JUndef] : f \in Updaters}
    \cup {[kind |-> "direct", f |-> [op |-> "", e |-> ""], value |-> v] : v \in DirectValues}

(***************************************************************************)
(* Initial state: the instance has just rendered for the first time.       *)
(* Earlier sessions may have left a value in the browser and at the        *)
(* service.                                                                *)
(***************************************************************************)
InitHook ==
    /\ env \in DataEnvs
    /\ isLocalMode = LocalModeOf(env)
    /\ hookKey \in HookKeys
    /\ \E earlier \in EarlierRemote \cup {JUndef} :
          LET empty == [ls |-> EmptyMap, prefs |-> EmptyMap, gens |-> EmptyMap]
              db == IF earlier = JUndef THEN empty
                    ELSE setValue(empty, isLocalMode, hookKey, earlier, HookUser, FALSE).db
          IN  /\ localStorage = db.ls
              /\ preferencesContainer = db.prefs
              /\ generationsContainer = db.gens
    /\ everSet = {}
    /\ lastReq = NoReq
    /\ lastResp = NoResp
    /\ repeated = FALSE
    /\ browserStorage \in {""} \cup {JSONstringify(v) : v \in EarlierLocal}
    /\ data = getLocalStorageValue(browserStorage, defaultValue)
    /\ loading = FALSE
    /\ error = JNull
    /\ hasTriedApi = FALSE
    /\ rendered = [data |-> data, hasTriedApi |-> FALSE]
    /\ effectPending = TRUE
    /\ inflight = {}
    /\ reads = 0
    /\ calls = 0
    /\ lastCall = NoCall
    /\ raced = FALSE
    /\ lastDone = NoDone
    /\ rejected = FALSE
    /\ cacheAtMount = browserStorage
    /\ InitGatewayIdle
    /\ InitTokenIdle
    /\ InitAppIdle

\* a re-render: the closures capture the current state; the effect is
\* scheduled when one of its dependencies [key, defaultValue, hasTriedApi]
\* changed (fresh: the caller passed a new defaultValue object)
Render ==
    /\ ~effectPending
    /\ \E fresh \in BOOLEAN :
          effectPending' = (fresh \/ rendered.hasTriedApi # hasTriedApi)
    /\ rendered' = [data |-> data, hasTriedApi |-> hasTriedApi]
    /\ UNCHANGED <<tokenVars, appVars, gatewayVars, serverVars, cacheAtMount, hookKey, browserStorage, data, loading, error, hasTriedApi,
                   inflight, reads, calls, lastCall, raced, lastDone, rejected>>

\* the effect, and loadData up to its fetch when the effect calls it
RunEffect ==
    /\ effectPending
    /\ effectPending' = FALSE
    /\ LET currentValue == getLocalStorageValue(browserStorage, defaultValue)
       IN  IF /\ ~rendered.hasTriedApi
              /\ JSONstringify(currentValue) = JSONstringify(defaultValue)
           THEN /\ reads < MaxReads
                /\ loading' = TRUE
                /\ error' = JNull
                /\ hasTriedApi' = loadDataLatch
                /\ inflight' = inflight \cup {Fetch(reads + 1, "GET", JUndef)}
                /\ reads' = reads + 1
           ELSE UNCHANGED <<loading, error, hasTriedApi, inflight, reads>>
    /\ UNCHANGED <<tokenVars, appVars, gatewayVars, serverVars, cacheAtMount, hookKey, browserStorage, data, rendered, calls, lastCall,
                   raced, lastDone, rejected>>

\* the setter returned by useKV, called by an event handler: setDataWrapper
\* and saveData up to its fetch
SetValue ==
    \E arg \in SetterArgs :
        LET newValue == setDataWrapper(arg, rendered.data)
            opt == saveDataOptimistic(newValue, data, browserStorage)
        IN  /\ calls < MaxWrites
            /\ newValue.t = "array" => Len(newValue.a) <= MaxLen
            /\ error' = opt.error
            /\ data' = opt.data
            /\ browserStorage' = opt.item
            /\ inflight' = inflight \cup {Fetch(calls + 1, "POST", newValue)}
            /\ calls' = calls + 1
            /\ lastCall' = [kind |-> arg.kind, value |-> newValue,
                            expected |-> IF arg.kind = "updater"
                                         THEN ApplyUpdater(arg.f, data) ELSE arg.value]
            /\ raced' = (raced \/ \E r \in inflight : r.method = "POST")
            /\ UNCHANGED <<tokenVars, appVars, gatewayVars, serverVars, cacheAtMount, hookKey, loading, hasTriedApi, rendered, effectPending,
                           reads, lastDone, rejected>>

\* the data handler serves a fetch
Deliver ==
    \E r \in inflight : \E fault \in BOOLEAN :
        /\ r.stage = "sent"
        /\ fault => ~isLocalMode
        /\ LET body == IF r.method = "POST"
                       THEN [kind |-> "object",
                             value |-> JSONparse(JSONstringify(r.value)).value]
                       ELSE NoBody
               req == HookUrl(r.method, body)
               out == dataHandler(Db, isLocalMode, req, fault)
           IN  /\ localStorage' = out.db.ls
               /\ preferencesContainer' = out.db.prefs
               /\ generationsContainer' = out.db.gens
               /\ inflight' = (inflight \ {r}) \cup {[r EXCEPT !.stage = "answered", !.resp = out.resp]}
        /\ UNCHANGED <<env, isLocalMode, lastReq, lastResp, everSet, repeated, gatewayVars,
                       tokenVars, appVars>>
        /\ UNCHANGED <<cacheAtMount, hookKey, browserStorage, data, loading, error, hasTriedApi,
                       rendered,
                       effectPending, reads, calls, lastCall, raced, lastDone, rejected>>

\* loadData resumes: with the response (netError FALSE), or with a rejected
\* fetch (the request or its response was lost)
LoadComplete ==
    \E r \in inflight : \E netError \in BOOLEAN :
        /\ r.method = "GET"
        /\ ~netError => r.stage = "answered"
        /\ LET threw == netError \/ r.resp.status # 200
               out == IF threw
                      THEN loadDataCatch(data, browserStorage, error)
                      ELSE loadDataResult(r.resp, data, browserStorage, error)
           IN  /\ data' = out.data
               /\ browserStorage' = out.item
               /\ error' = out.error
               /\ rejected' = (rejected \/ out.rejects)
               /\ lastDone' = [method |-> "GET",
                               outcome |-> IF threw THEN "failed"
                                           ELSE IF r.resp.success /\ r.resp.value # JNull
                                           THEN "value" ELSE "null"]
        /\ loading' = FALSE
        /\ inflight' = inflight \ {r}
        /\ UNCHANGED <<tokenVars, appVars, gatewayVars, serverVars, cacheAtMount, hookKey, hasTriedApi, rendered, effectPending,
                       reads, calls, lastCall, raced>>

\* saveData resumes: the write succeeded, or it failed (rejected fetch,
\* status not ok, success false)
SaveComplete ==
    \E r \in inflight : \E netError \in BOOLEAN :
        /\ r.method = "POST"
        /\ ~netError => r.stage = "answered"
        /\ LET threw == netError \/ r.resp.status # 200 \/ ~r.resp.success
               out == IF threw THEN saveDataCatch(data, browserStorage, error)
                      ELSE After(data, browserStorage, error, FALSE)
           IN  /\ data' = out.data
               /\ browserStorage' = out.item
               /\ error' = out.error
               /\ rejected' = (rejected \/ out.rejects)
               /\ lastDone' = [method |-> "POST", outcome |-> IF threw THEN "failed" ELSE "ok"]
        /\ inflight' = inflight \ {r}
        /\ UNCHANGED <<tokenVars, appVars, gatewayVars, serverVars, cacheAtMount, hookKey, loading, hasTriedApi, rendered,
                       effectPending, reads, calls, lastCall, raced>>

NextHook ==
    \/ Render
    \/ RunEffect
    \/ SetValue
    \/ Deliver
    \/ LoadComplete
    \/ SaveComplete

SpecHook == InitHook /\ [][NextHook]_vars

(***************************************************************************)
(* Properties of the hook                                                  *)
(***************************************************************************)
\* the value the local cache holds for the key (undefined when it holds none)
Cached == getLocalStorageValue(browserStorage, JUndef)
\* the value the service holds for the hook's key (undefined when none)
Remote ==
    LET k == IF isLocalMode THEN getLocalKey(hookKey, HookUser) ELSE <<hookKey, HookUser>>
    IN  MapGet(IF isLocalMode THEN localStorage ELSE preferencesContainer, k)
\* the write of the last setter call has been sent and not served yet
LastWriteInFlight ==
    \E r \in inflight :
        r.method = "POST" /\ r.id = calls /\ r.stage = "sent" /\ r.value = lastCall.value

C2_AtMostOneRead == reads <= 1

\* the read failed, nothing is cached, and the instance has re-rendered and
\* re-run its effect since
C2_Witness ==
    /\ reads = 1
    /\ lastDone = [method |-> "GET", outcome |-> "failed"]
    /\ browserStorage = ""
    /\ rendered.hasTriedApi
    /\ ~effectPending

\* C3 (as claimed): once two setter calls have raced, the in-memory value and
\* the local cache hold the value of the most recent call in every later
\* state, and a write the service applies becomes the remote value.
C3_LatestLocalCallWins ==
    [][ /\ raced' => (data' = lastCall'.value /\ Cached' = lastCall'.value)
        /\ \A r \in inflight :
              (/\ r.method = "POST" /\ r.stage = "sent"
               /\ \E q \in inflight' : q.method = "POST" /\ q.id = r.id
                                        /\ q.stage = "answered" /\ q.resp.status = 200)
              => Remote' = r.value ]_vars

\* C4 (as claimed): a remote read that returns a non-null value replaces the
\* in-memory value and the local cache by it; one that fails or returns null
\* leaves both as they were.
C4_ReconciliationOutcome ==
    [][ \A r \in inflight :
            (r.method = "GET" /\ r \notin inflight') =>
                IF lastDone'.outcome = "value"
                THEN data' = r.resp.value /\ Cached' = r.resp.value
                ELSE data' = data /\ browserStorage' = browserStorage ]_vars

\* C5: no rollback.  The continuation of a failed remote write leaves the
\* in-memory value and the local cache as the optimistic update set them.
C5_NoRollback ==
    [][ \A r \in inflight :
            (r.method = "POST" /\ r \notin inflight' /\ lastDone'.outcome = "failed") =>
                /\ data' = data
                /\ browserStorage' = browserStorage
                /\ (data = r.value => data' = r.value)
                /\ (Cached = r.value => Cached' = r.value) ]_vars

\* the last write has failed and both copies still hold its value
C5_Witness ==
    /\ lastDone = [method |-> "POST", outcome |-> "failed"]
    /\ inflight = {}
    /\ data = lastCall.value
    /\ Cached = lastCall.value
    /\ data # defaultValue

\* C6 (as claimed): a setter call with an updater f applies f(v), v being the
\* in-memory value at the time of the call.
C6_UpdaterOnCurrentValue ==
    lastCall.kind = "updater" => lastCall.value = lastCall.expected

\* C7: remote failures are not surfaced.  The error state is null in every
\* state and no promise of loadData or saveData rejects.
C7_FailuresSilent == error = JNull /\ ~rejected

C7_Witness ==
    /\ lastDone.outcome = "failed"
    /\ reads = 1
    /\ calls > 0
    /\ inflight = {}
    /\ error = JNull
    /\ ~rejected

(***************************************************************************)
(* The data endpoint on its own: no hook is mounted.                       *)
(***************************************************************************)
InitData ==
    /\ InitServer
    /\ hookKey = ""
    /\ browserStorage = ""
    /\ data = defaultValue
    /\ loading = FALSE
    /\ error = JNull
    /\ hasTriedApi = FALSE
    /\ rendered = [data |-> defaultValue, hasTriedApi |-> FALSE]
    /\ effectPending = FALSE
    /\ inflight = {}
    /\ reads = 0
    /\ calls = 0
    /\ lastCall = NoCall
    /\ raced = FALSE
    /\ lastDone = NoDone
    /\ rejected = FALSE
    /\ cacheAtMount = ""
    /\ InitGatewayIdle
    /\ InitTokenIdle
    /\ InitAppIdle

NextData == DataRequest /\ UNCHANGED <<hookVars, gatewayVars, tokenVars, appVars>>

SpecData == InitData /\ [][NextData]_vars

(***************************************************************************)
(* Properties of the data endpoint                                         *)
(***************************************************************************)
PostOk == lastReq.method = "POST" /\ lastResp.status = 200
GetOk == lastReq.method = "GET" /\ lastResp.status = 200
DeleteOk == lastReq.method = "DELETE" /\ lastResp.status = 200

\* C8 (as claimed): round trip.  A GET that directly follows a POST {value: X}
\* on the same (key, userId) returns value X, in both storage modes.
C8_RoundTrip ==
    [][ (PostOk /\ GetOk' /\ Pair(lastReq') = Pair(lastReq))
            => lastResp'.value = lastReq.body.value ]_vars

\* C9 (as claimed): DELETE on a pair that was never set reports deleted=false;
\* DELETE directly after a POST on the pair reports deleted=true; and a GET
\* after a DELETE that removed the pair returns null.
C9_DeleteContract ==
    [][ /\ (DeleteOk' /\ Pair(lastReq') \notin everSet) => lastResp'.deleted = JFalse
        /\ (PostOk /\ DeleteOk' /\ Pair(lastReq') = Pair(lastReq))
                => lastResp'.deleted = JTrue
        /\ (DeleteOk /\ lastResp.deleted = JTrue /\ GetOk' /\ Pair(lastReq') = Pair(lastReq))
                => lastResp'.value = JNull ]_vars

\* C10 (as claimed): idempotence of POST.  The second of two identical POSTs
\* leaves the stores as the first left them, and a GET after the two returns X
\* itself, neither duplicated nor nested.
C10_PostIdempotent ==
    [][ /\ (PostOk /\ PostOk' /\ lastReq' = lastReq) => Db' = Db
        /\ (repeated /\ GetOk' /\ Pair(lastReq') = Pair(lastReq))
                => lastResp'.value = lastReq.body.value ]_vars

\* the value a GET for (key, userId) returns from the stores db
GetOf(db, key, userId) ==
    dataHandler(db, isLocalMode,
                [method |-> "GET", key |-> key, userId |-> userId, body |-> NoBody],
                FALSE).resp.value

\* C11: a POST whose body is an object without a value field is answered 400
\* with success absent, and leaves the three stores as they were.
C11_PostWithoutValue ==
    [][ (lastReq'.method = "POST" /\ lastReq'.body = [kind |-> "object", value |-> JUndef])
            => /\ lastResp'.status = 400
               /\ ~lastResp'.success
               /\ Db' = Db ]_vars

\* a pair holds a value and the POST without a value for that pair was refused
C11_Witness ==
    /\ lastReq.method = "POST"
    /\ lastReq.body = [kind |-> "object", value |-> JUndef]
    /\ lastReq.key # ""
    /\ lastResp.status = 400
    /\ lastResp.error = "Value is required in request body"
    /\ Pair(lastReq) \in everSet
    /\ GetOf(Db, lastReq.key, lastReq.userId) = JArr(<<JStr("a")>>)

\* C12 (as claimed): per-pair last write wins and isolation.  A request
\* leaves what GET returns for every other (key, userId) pair unchanged; after
\* a POST, GET for its pair returns the value posted; after a DELETE, GET for
\* its pair returns null.
C12_PerPairLastWriteWins ==
    [][ /\ \A k \in Keys \ {""}, u \in UserIds :
              <<k, EffectiveUser([userId |-> u])>> # Pair(lastReq')
                  => GetOf(Db', k, u) = GetOf(Db, k, u)
        /\ PostOk' => GetOf(Db', lastReq'.key, lastReq'.userId) = lastReq'.body.value
        /\ DeleteOk' => GetOf(Db', lastReq'.key, lastReq'.userId) = JNull ]_vars

(***************************************************************************)
(* The three stateless handlers, driven by arbitrary requests.             *)
(***************************************************************************)
\* process.env of a machine the handlers run on (the Cosmos endpoint may be
\* unset as well)
GatewayEnvs ==
    DataEnvs \cup {[functionsEnvironment |-> "Development", cosmosEndpoint |-> ""]}

\* the record of a request served by one of the three handlers
ApiCall(handler, req, resp, made, fetched, result) ==
    [handler |-> handler, req |-> req, resp |-> resp, calls |-> made,
     fetched |-> fetched, result |-> result]

\* no invocation of a handler is under way
Idle == apiCall = NoApiCall /\ lastReq = NoReq

\* the generateSocialMediaPost calls a request leads to
callsOf(req) ==
    IF ~isPreflight(req.method) /\ req.body.kind = "object"
       /\ ~chatValidation(req.body.content, req.body.platforms)
    THEN Len(SelectSeq(req.body.platforms.a, LAMBDA p : p.s \in DOMAIN platformConfigs))
    ELSE 0

\* what each call of a request meets; in mock mode, and for the calls a
\* request does not make, there is nothing to meet
OutcomesFor(req) ==
    LET n == IF openaiLocal THEN 0 ELSE callsOf(req)
    IN  {[i \in 1..LongestList |-> IF i <= n THEN o[i] ELSE "ok"] :
            o \in [1..n -> ApiOutcomes]}

ChatRequest ==
    /\ Idle
    /\ \E req \in ChatRequests : \E outcomes \in OutcomesFor(req) :
          LET out == chatHandler(req, openaiLocal, outcomes)
          IN  apiCall' = ApiCall("chat", req, out.resp, out.calls, FALSE,
                                  FetchResult("none", NoPage))
    /\ UNCHANGED <<serverVars, hookVars, openaiEnv, openaiLocal, tokenVars, appVars>>

ExtractUrlRequest ==
    /\ Idle
    /\ \E req \in ExtractRequests : \E result \in FetchResults :
          LET out == extractUrlHandler(req, result)
          IN  apiCall' = ApiCall("extract-url", req, out.resp, <<>>, out.fetched,
                                  IF out.fetched THEN result
                                  ELSE FetchResult("none", NoPage))
    /\ UNCHANGED <<serverVars, hookVars, openaiEnv, openaiLocal, tokenVars, appVars>>

HealthRequest ==
    /\ Idle
    /\ \E req \in HealthRequests :
          apiCall' = ApiCall("health", req, healthHandler(req, processEnv(env, openaiEnv)),
                             <<>>, FALSE, FetchResult("none", NoPage))
    /\ UNCHANGED <<serverVars, hookVars, openaiEnv, openaiLocal, tokenVars, appVars>>

\* the response has been sent and the invocation ends: a handler keeps
\* nothing of a request
Respond ==
    /\ ~Idle
    /\ apiCall' = NoApiCall
    /\ lastReq' = NoReq
    /\ lastResp' = NoResp
    /\ repeated' = FALSE
    /\ UNCHANGED <<env, isLocalMode, localStorage, preferencesContainer,
                   generationsContainer, everSet, openaiEnv, openaiLocal, hookVars,
                   tokenVars, appVars>>

InitGateway ==
    /\ env \in GatewayEnvs
    /\ isLocalMode = LocalModeOf(env)
    /\ localStorage = EmptyMap
    /\ preferencesContainer = EmptyMap
    /\ generationsContainer = EmptyMap
    /\ lastReq = NoReq
    /\ lastResp = NoResp
    /\ everSet = {}
    /\ repeated = FALSE
    /\ hookKey = ""
    /\ browserStorage = ""
    /\ data = defaultValue
    /\ loading = FALSE
    /\ error = JNull
    /\ hasTriedApi = FALSE
    /\ rendered = [data |-> defaultValue, hasTriedApi |-> FALSE]
    /\ effectPending = FALSE
    /\ inflight = {}
    /\ reads = 0
    /\ calls = 0
    /\ lastCall = NoCall
    /\ raced = FALSE
    /\ lastDone = NoDone
    /\ rejected = FALSE
    /\ cacheAtMount = ""
    /\ openaiEnv \in OpenAIEnvs
    /\ openaiLocal = OpenAILocalModeOf(openaiEnv)
    /\ apiCall = NoApiCall
    /\ InitTokenIdle
    /\ InitAppIdle

NextGateway ==
    \/ ChatRequest
    \/ ExtractUrlRequest
    \/ HealthRequest
    \/ Respond

SpecGateway == InitGateway /\ [][NextGateway]_vars

(***************************************************************************)
(* The four handlers of the Function App, one invocation at a time.        *)
(***************************************************************************)
InitApi == InitData

DataCall ==
    /\ Idle
    /\ DataRequest
    /\ UNCHANGED <<hookVars, gatewayVars, tokenVars, appVars>>

NextApi ==
    \/ DataCall
    \/ ChatRequest
    \/ ExtractUrlRequest
    \/ HealthRequest
    \/ Respond

SpecApi == InitApi /\ [][NextApi]_vars

(***************************************************************************)
(* Properties of the chat, extract-url and health handlers                 *)
(***************************************************************************)
\* the request being served is a POST to chat whose body is an object
ChatPost ==
    apiCall.handler = "chat" /\ apiCall.req.method = "POST"
    /\ apiCall.req.body.kind = "object"
\* the request being served is a POST to extract-url whose body is an object
ExtractPost ==
    apiCall.handler = "extract-url" /\ apiCall.req.method = "POST"
    /\ apiCall.req.body.kind = "object"

PlatformIds == {"linkedin", "instagram", "twitter", "facebook"}
\* the identifiers a platforms array names
Named(platforms) == {platforms.a[i].s : i \in 1..Len(platforms.a)}

\* C13: for a non-empty content, a non-empty array of valid platform
\* identifiers and isUrl false, chat answers 200 with a posts map whose key
\* set is exactly the set of the platforms named.
C13_OneEntryPerPlatform ==
    (/\ ChatPost
     /\ Truthy(apiCall.req.body.content)
     /\ apiCall.req.body.platforms.t = "array"
     /\ Len(apiCall.req.body.platforms.a) > 0
     /\ Named(apiCall.req.body.platforms) \subseteq PlatformIds
     /\ apiCall.req.body.isUrl = JFalse)
        => /\ apiCall.resp.status = 200
           /\ apiCall.resp.success
           /\ DOMAIN apiCall.resp.posts = Named(apiCall.req.body.platforms)

\* two platforms were requested of the real service, one completion failed,
\* and the response has exactly their two entries
C13_Witness ==
    /\ ChatPost
    /\ ~openaiLocal
    /\ apiCall.req.body.content = JStr("hello")
    /\ apiCall.req.body.isUrl = JFalse
    /\ apiCall.req.body.platforms = JArr(<<JStr("twitter"), JStr("linkedin")>>)
    /\ apiCall.resp.status = 200
    /\ DOMAIN apiCall.resp.posts = {"twitter", "linkedin"}
    /\ apiCall.resp.posts["twitter"] = Completion("twitter")
    /\ apiCall.resp.posts["linkedin"] # Completion("linkedin")

\* C14: chat with content missing or empty, or with platforms missing, not
\* an array or an empty array, answers 400 and makes no call of
\* generateSocialMediaPost.
C14_ValidationBeforeGeneration ==
    (/\ ChatPost
     /\ \/ apiCall.req.body.content \in {JUndef, JStr("")}
        \/ apiCall.req.body.platforms = JUndef
        \/ apiCall.req.body.platforms.t # "array"
        \/ apiCall.req.body.platforms.a = <<>>)
        => /\ apiCall.resp.status = 400
           /\ ~apiCall.resp.success
           /\ apiCall.calls = <<>>

\* a content with an empty platforms array was refused by the real service
C14_Witness ==
    /\ ChatPost
    /\ ~openaiLocal
    /\ apiCall.req.body.content = JStr("hello")
    /\ apiCall.req.body.platforms = JArr(<<>>)
    /\ apiCall.resp.status = 400
    /\ apiCall.resp.error = "Missing required fields: content and platforms array"
    /\ apiCall.calls = <<>>

\* C15 (as claimed): a chat request whose platforms array names an identifier
\* other than linkedin, instagram, twitter and facebook is answered 400.
C15_UnknownPlatformRejected ==
    (/\ ChatPost
     /\ apiCall.req.body.platforms.t = "array"
     /\ ~(Named(apiCall.req.body.platforms) \subseteq PlatformIds))
        => apiCall.resp.status = 400

\* the last call made for a platform (an array may name a platform twice)
LastCallFor(i) ==
    \A j \in (i + 1)..Len(apiCall.calls) :
        apiCall.calls[j].platform # apiCall.calls[i].platform

\* C16: when generateSocialMediaPost fails for a platform, chat still
\* answers 200 success; every requested platform has an entry; the entry of
\* a platform whose generation failed is the inline error string, and the
\* entry of a platform whose generation returned is the post returned.
C16_FailureIsInline ==
    (apiCall.handler = "chat" /\ \E i \in 1..Len(apiCall.calls) : apiCall.calls[i].threw)
        => /\ apiCall.resp.status = 200
           /\ apiCall.resp.success
           /\ Named(apiCall.req.body.platforms) \cap PlatformIds
                  \subseteq DOMAIN apiCall.resp.posts
           /\ \A i \in 1..Len(apiCall.calls) :
                 LastCallFor(i) =>
                     LET c == apiCall.calls[i]
                     IN  apiCall.resp.posts[c.platform] =
                             IF c.threw
                             THEN "Error generating post for " \o c.platform \o ": "
                                      \o c.message
                             ELSE c.post

\* of two platforms, the generation for the first returned the completion
\* and the generation for the second failed
C16_Witness ==
    /\ ChatPost
    /\ Len(apiCall.calls) = 2
    /\ ~apiCall.calls[1].threw
    /\ apiCall.calls[2].threw
    /\ apiCall.calls[1].platform = "twitter"
    /\ apiCall.calls[2].platform = "linkedin"
    /\ apiCall.resp.status = 200
    /\ apiCall.resp.posts["twitter"] = Completion("twitter")
    /\ apiCall.resp.posts["linkedin"] =
           "Error generating post for linkedin: content.substring is not a function"

\* C17: extract-url with a url that is missing or is no well-formed URL
\* answers 400 and does not call fetch.
C17_InvalidUrlNoFetch ==
    (/\ ExtractPost
     /\ \/ apiCall.req.body.url \in {JUndef, JStr("")}
        \/ apiCall.req.body.url # JStr(WellFormedUrl))
        => /\ apiCall.resp.status = 400
           /\ ~apiCall.fetched

C17_Witness ==
    /\ ExtractPost
    /\ apiCall.req.body.url = JStr("not a url")
    /\ apiCall.resp.status = 400
    /\ apiCall.resp.error = "Invalid URL format"
    /\ ~apiCall.fetched

\* C18 (as claimed): extract-url with a well-formed URL whose fetch times
\* out, fails or is answered with a non-OK status answers 200 success with
\* the fallback placeholder as extractedContent.
C18_FetchFailureFallsBack ==
    (/\ ExtractPost
     /\ apiCall.fetched
     /\ apiCall.result.kind \in {"timeout", "networkError", "notOk"})
        => /\ apiCall.resp.status = 200
           /\ apiCall.resp.success
           /\ apiCall.resp.extractedContent =
                  "Content from example.com: Unable to extract meaningful content from this page."

\* C19: health answers 200 'healthy' when the five required environment
\* variables are all non-empty, and 503 'degraded' otherwise, whatever the
\* values are.
C19_HealthyIffConfigured ==
    (apiCall.handler = "health" /\ apiCall.req.method = "GET")
        => LET present ==
                   /\ openaiEnv.endpoint # ""
                   /\ env.cosmosEndpoint # ""
                   /\ openaiEnv.gptDeployment # ""
                   /\ openaiEnv.miniDeployment # ""
                   /\ openaiEnv.embeddingDeployment # ""
           IN  IF present
               THEN apiCall.resp.status = 200 /\ apiCall.resp.healthStatus = "healthy"
               ELSE apiCall.resp.status = 503 /\ apiCall.resp.healthStatus = "degraded"

\* both endpoints hold their placeholders, and health reports healthy
C19_Witness ==
    /\ apiCall.handler = "health"
    /\ apiCall.req.method = "GET"
    /\ openaiEnv.endpoint = OpenAIPlaceholder
    /\ env.cosmosEndpoint = Placeholder
    /\ apiCall.resp.status = 200
    /\ apiCall.resp.healthStatus = "healthy"
    /\ apiCall.resp.missingEnvVars = {}

\* C20: each of the four handlers answers OPTIONS with 200 and the CORS
\* headers (any origin allowed) and nothing else: whatever the body and the
\* key are, the stores are unchanged, generateSocialMediaPost is not called
\* and fetch is not called.
C20_Preflight ==
    [][ /\ lastReq'.method = "OPTIONS"
            => /\ lastResp' = Resp(200, FALSE, "", JUndef, JUndef)
               /\ lastResp'.headers.allowOrigin = "*"
               /\ Db' = Db
        /\ apiCall'.req.method = "OPTIONS"
            => /\ apiCall'.resp \in {ApiResp(200, chatHeaders), ApiResp(200, extractUrlHeaders),
                                     ApiResp(200, healthHeaders)}
               /\ apiCall'.resp.headers.allowOrigin = "*"
               /\ apiCall'.calls = <<>>
               /\ ~apiCall'.fetched
               /\ Db' = Db ]_vars

\* a pair holds a value, and an OPTIONS request without a key was answered 200
C20_Witness ==
    /\ lastReq.method = "OPTIONS"
    /\ lastReq.key = ""
    /\ lastResp.status = 200
    /\ everSet # {}
    /\ \E k \in Keys \ {""}, u \in UserIds : GetOf(Db, k, u) = JArr(<<JStr("a")>>)

\* C24 (as claimed): a POST to chat, to the data endpoint (with a key) or to
\* extract-url whose body is absent or is not parseable JSON is answered 400
\* with an error text, never 500.
C24_MalformedBodyIs400 ==
    /\ (/\ apiCall.handler \in {"chat", "extract-url"}
        /\ apiCall.req.method = "POST"
        /\ apiCall.req.body.kind = "invalid")
           => (apiCall.resp.status = 400 /\ apiCall.resp.error # "")
    /\ (lastReq.method = "POST" /\ lastReq.key # "" /\ lastReq.body.kind = "invalid")
           => (lastResp.status = 400 /\ lastResp.error # "")

\* C30 (as claimed): in every successful chat response, platformCount equals
\* the number of entries of posts, whatever platforms array was accepted
\* (repeated or unknown identifiers included).
C30_PlatformCountIsEntries ==
    (ChatPost /\ apiCall.resp.status = 200 /\ apiCall.resp.success)
        => apiCall.resp.platformCount = Cardinality(DOMAIN apiCall.resp.posts)

(***************************************************************************)
(* The hook's background read                                              *)
(***************************************************************************)
\* the value the instance found in the local cache when it was mounted
MountValue == getLocalStorageValue(cacheAtMount, defaultValue)

\* C25 (as claimed): an instance mounted with a cached value different from
\* the default issues no remote read at any point while it is mounted.
C25_NoReadWhenCachedAtMount ==
    JSONstringify(MountValue) # JSONstringify(defaultValue) => reads = 0

\* C28 (as claimed): when a remote read completes after a setter call
\* (returning a value, returning null, or failing), the in-memory value and
\* the local cache still hold the value of the most recent setter call.
C28_ReadKeepsWrittenValue ==
    [][ \A r \in inflight :
            (r.method = "GET" /\ r \notin inflight' /\ calls > 0) =>
                (data' = lastCall.value /\ Cached' = lastCall.value) ]_vars

(***************************************************************************)
(* The OpenAI service as a process: getAccessToken with its token cache,   *)
(* and concurrent generateSocialMediaPost calls, each suspended at its     *)
(* awaits (credential.getToken, then the completion request).              *)
(***************************************************************************)
\* what the calls are made with
GenerateCalls ==
    { [content |-> JStr("hello"), platform |-> "twitter"],
      [content |-> LengthOnly, platform |-> "linkedin"] }
\* how long after its issue a token expires
TokenLifetime == 2

\* (variant: the cache test ignores the expiry)
tokenValid_ignoresExpiry(cache, expiry, t) == cache # 0

\* getAccessToken: this.tokenCache && this.tokenExpiry && Date.now() < this.tokenExpiry
tokenValid(cache, expiry, t) == cache # 0 /\ expiry # 0 /\ t < expiry

\* (variant: the expiry is set only while none is cached)
refreshCache_firstExpiry(response, expiry) ==
    [tokenCache |-> response.token,
     tokenExpiry |-> IF expiry = 0 THEN response.expiresOnTimestamp ELSE expiry]

\* getAccessToken after credential.getToken resolved: the two assignments
refreshCache(response, expiry) ==
    [tokenCache |-> response.token, tokenExpiry |-> response.expiresOnTimestamp]

\* the lowest slot without a call
FreeSlot == CHOOSE i \in Slots : pending[i] = NoPending /\ \A j \in 1..(i - 1) : pending[j] # NoPending

\* a call of generateSocialMediaPost, up to its first await (or to its return
\* in mock mode)
GenerateSocialMediaPost ==
    /\ \E i \in Slots : pending[i] = NoPending
    /\ \E c \in GenerateCalls :
          LET content == c.content
              platform == c.platform
              call == [NoPending EXCEPT !.content = content, !.platform = platform]
          IN  pending' = [pending EXCEPT ![FreeSlot] =
                 IF openaiLocal
                 THEN [call EXCEPT !.pc = "done",
                                   !.result = generateSocialMediaPost(content, platform,
                                                  platformConfigs[platform], TRUE, "ok")]
                 ELSE IF tokenValid(tokenCache, tokenExpiry, now)
                 THEN [call EXCEPT !.pc = "completion", !.token = tokenCache,
                                   !.fromCache = TRUE, !.completions = 1]
                 ELSE [call EXCEPT !.pc = "getToken", !.tokenRequests = 1]]
    /\ UNCHANGED <<tokenCache, tokenExpiry, now, responses>>
    /\ UNCHANGED <<serverVars, hookVars, gatewayVars, appVars>>

\* (of a call that has returned, the slot keeps what it met, what it returned
\* and the number of its completion requests)
\* credential.getToken settles for a call: with a token (getAccessToken
\* refreshes the cache and the call goes on to the completion request), or
\* with an error (getAccessToken rethrows; the call's catch gives the mock post)
GetTokenSettles ==
    \E i \in Slots : \E ok \in BOOLEAN :
        /\ pending[i].pc = "getToken"
        /\ IF ok
           THEN LET tokenResponse == [token |-> Len(responses) + 1,
                                      expiresOnTimestamp |-> now + TokenLifetime]
                    cache == refreshCache(tokenResponse, tokenExpiry)
                IN  /\ Len(responses) < MaxTokens
                    /\ responses' = Append(responses, tokenResponse)
                    /\ tokenCache' = cache.tokenCache
                    /\ tokenExpiry' = cache.tokenExpiry
                    /\ pending' = [pending EXCEPT ![i].pc = "completion",
                                                  ![i].token = cache.tokenCache,
                                                  ![i].completions = @ + 1]
           ELSE /\ pending' = [pending EXCEPT
                      ![i].pc = "done", ![i].met = "tokenFailed", ![i].tokenRequests = 0,
                      ![i].result = generateSocialMediaPost(pending[i].content,
                                        pending[i].platform,
                                        platformConfigs[pending[i].platform], FALSE,
                                        "tokenFailed")]
                /\ UNCHANGED <<tokenCache, tokenExpiry, responses>>
        /\ UNCHANGED <<now, serverVars, hookVars, gatewayVars, appVars>>

\* the completion request settles for a call: a completion, a rejected fetch,
\* or a status that is not OK
CompletionSettles ==
    \E i \in Slots : \E outcome \in ApiOutcomes \ {"tokenFailed"} :
        /\ pending[i].pc = "completion"
        /\ pending' = [pending EXCEPT
              ![i].pc = "done", ![i].met = outcome,
              ![i].token = 0, ![i].fromCache = FALSE, ![i].tokenRequests = 0,
              ![i].result = generateSocialMediaPost(pending[i].content, pending[i].platform,
                                platformConfigs[pending[i].platform], FALSE, outcome)]
        /\ UNCHANGED <<tokenCache, tokenExpiry, now, responses>>
        /\ UNCHANGED <<serverVars, hookVars, gatewayVars, appVars>>

\* the caller receives the result of a call
ReturnPost ==
    \E i \in Slots :
        /\ pending[i].pc = "done"
        /\ pending' = [pending EXCEPT ![i] = NoPending]
        /\ UNCHANGED <<tokenCache, tokenExpiry, now, responses>>
        /\ UNCHANGED <<serverVars, hookVars, gatewayVars, appVars>>

\* time passes
Tick ==
    /\ now < MaxTime
    /\ now' = now + 1
    /\ UNCHANGED <<tokenCache, tokenExpiry, responses, pending>>
    /\ UNCHANGED <<serverVars, hookVars, gatewayVars, appVars>>

\* the service constructed without an endpoint, with the placeholder and with
\* a real one (the deployment names play no part here)
InitOpenAI ==
    /\ InitGateway
    /\ env.cosmosEndpoint = Placeholder
    /\ openaiEnv.gptDeployment # "" /\ openaiEnv.miniDeployment # ""
    /\ openaiEnv.embeddingDeployment # ""

NextOpenAI ==
    \/ GenerateSocialMediaPost
    \/ GetTokenSettles
    \/ CompletionSettles
    \/ ReturnPost
    \/ Tick

SpecOpenAI == InitOpenAI /\ [][NextOpenAI]_vars

(***************************************************************************)
(* Properties of the token cache and of the completion path                *)
(***************************************************************************)
\* the expiry the credential provider gave a token
ExpiryOf(token) == responses[token].expiresOnTimestamp
\* the call in slot i starts in this step, the service not being in mock mode
Starts(i) == pending[i] = NoPending /\ pending'[i] # NoPending /\ ~openaiLocal
\* the credential request of the call in slot i resolves in this step
Refreshes(i) == pending[i].pc = "getToken" /\ pending'[i].pc = "completion"

\* C21: token cache reuse.  A call that finds a token cached and the clock
\* before its expiry uses the cached token without a credential request and
\* leaves the cache alone; any other call makes a credential request, whose
\* response overwrites the cached token and expiry.  A token taken from the
\* cache has not expired.
C21_TokenCacheReuse ==
    [][ \A i \in Slots :
          /\ Starts(i) =>
                IF tokenCache # 0 /\ now < tokenExpiry
                THEN /\ pending'[i].pc = "completion"
                     /\ pending'[i].fromCache
                     /\ pending'[i].token = tokenCache
                     /\ pending'[i].tokenRequests = 0
                     /\ now < ExpiryOf(tokenCache)
                     /\ UNCHANGED <<tokenCache, tokenExpiry, responses>>
                ELSE /\ pending'[i].pc = "getToken"
                     /\ pending'[i].tokenRequests = 1
                     /\ pending'[i].token = 0
          /\ Refreshes(i) =>
                /\ Len(responses') = Len(responses) + 1
                /\ tokenCache' = responses'[Len(responses')].token
                /\ tokenExpiry' = responses'[Len(responses')].expiresOnTimestamp
                /\ pending'[i].token = tokenCache' ]_vars

\* a token was issued and cached, a later call reused it, the token expired,
\* and the call after that is asking for a new one
C21_Witness ==
    /\ Len(responses) = 1
    /\ tokenCache = 1
    /\ now >= tokenExpiry
    /\ \E i, j \in Slots :
          /\ pending[i].fromCache /\ pending[i].token = 1
          /\ pending[j].pc = "getToken"

\* C26: concurrent refreshes need no lock.  In every state the cached token
\* and the cached expiry are those of one credential response, the one that
\* arrived last (or nothing is cached and none arrived), and every call past
\* its token step holds a token the provider issued: the cached one or the
\* one of its own request.
C26_ConcurrentRefresh ==
    /\ IF responses = <<>>
       THEN tokenCache = 0 /\ tokenExpiry = 0
       ELSE /\ tokenCache = responses[Len(responses)].token
            /\ tokenExpiry = responses[Len(responses)].expiresOnTimestamp
    /\ \A i \in Slots :
          pending[i].pc = "completion"
             => /\ pending[i].token \in 1..Len(responses)
                /\ pending[i].completions = 1

\* two calls found the cache empty, both asked the provider, both requests
\* resolved with different expiries, and both calls hold their own token
C26_Witness ==
    /\ Len(responses) = 2
    /\ responses[1].expiresOnTimestamp # responses[2].expiresOnTimestamp
    /\ \A i \in Slots : pending[i].tokenRequests = 1 /\ pending[i].pc = "completion"
    /\ pending[1].token # pending[2].token
    /\ tokenCache = 2

\* C27 (as claimed): a call whose token acquisition failed, or whose
\* completion request failed or was answered with a status that is not OK,
\* returns the mock post of its platform, does not throw, and has called the
\* completion endpoint at most once.
C27_FailureGivesMock ==
    \A i \in Slots :
        (pending[i].pc = "done" /\ pending[i].met \in {"tokenFailed", "fetchFailed", "notOk"})
            => /\ ~pending[i].result.err
               /\ pending[i].result =
                     generateMockPost(pending[i].content, pending[i].platform,
                                      platformConfigs[pending[i].platform])
               /\ pending[i].completions <= 1

(***************************************************************************)
(* Both services as constructed under any environment settings, serving    *)
(* one operation at a time.                                                *)
(***************************************************************************)
\* every combination of AZURE_FUNCTIONS_ENVIRONMENT and AZURE_COSMOS_ENDPOINT
ConfigEnvs ==
    {[functionsEnvironment |-> f, cosmosEndpoint |-> c] :
        f \in FunctionsEnvironments, c \in CosmosEndpoints}
\* the OpenAI settings with the endpoint unset, the placeholder, or a real one
ConfigOpenAIEnvs ==
    {OpenAIEnv(e, "gpt-4o", "gpt-4o-mini", "text-embedding-3-small") :
        e \in {"", OpenAIPlaceholder, OpenAIReal}}

\* reads and writes of the two keys the App stores
ConfigRequests ==
    {r \in Requests :
        /\ r.key \in {"selected-platforms", "saved-generations"}
        /\ r.userId = ""
        /\ r.method \in {"GET", "POST"}
        /\ r.method = "POST" => r.body = [kind |-> "object", value |-> JArr(<<JStr("a")>>)]}

\* a Cosmos request can succeed only where an account is: behind an unset or
\* placeholder endpoint every request of the client fails
Unreachable == ~isLocalMode /\ env.cosmosEndpoint # RealEndpoint

InitConfig ==
    /\ env \in ConfigEnvs
    /\ isLocalMode = LocalModeOf(env)
    /\ localStorage = EmptyMap
    /\ preferencesContainer = EmptyMap
    /\ generationsContainer = EmptyMap
    /\ lastReq = NoReq
    /\ lastResp = NoResp
    /\ everSet = {}
    /\ repeated = FALSE
    /\ hookKey = ""
    /\ browserStorage = ""
    /\ data = defaultValue
    /\ loading = FALSE
    /\ error = JNull
    /\ hasTriedApi = FALSE
    /\ rendered = [data |-> defaultValue, hasTriedApi |-> FALSE]
    /\ effectPending = FALSE
    /\ inflight = {}
    /\ reads = 0
    /\ calls = 0
    /\ lastCall = NoCall
    /\ raced = FALSE
    /\ lastDone = NoDone
    /\ rejected = FALSE
    /\ cacheAtMount = ""
    /\ openaiEnv \in ConfigOpenAIEnvs
    /\ openaiLocal = OpenAILocalModeOf(openaiEnv)
    /\ apiCall = NoApiCall
    /\ InitTokenIdle
    /\ InitAppIdle

\* no generateSocialMediaPost call is under way
AllReturned == \A i \in Slots : pending[i] = NoPending

ConfigDataCall ==
    /\ Idle
    /\ AllReturned
    /\ \E req \in ConfigRequests : \E fault \in BOOLEAN :
          /\ fault => ~isLocalMode
          /\ Unreachable => fault
          /\ Serve(req, fault)
    /\ UNCHANGED <<hookVars, gatewayVars, tokenVars, appVars>>

ConfigGenerate ==
    /\ Idle
    /\ AllReturned
    /\ GenerateSocialMediaPost

NextConfig ==
    \/ ConfigDataCall
    \/ ConfigGenerate
    \/ GetTokenSettles
    \/ CompletionSettles
    \/ ReturnPost
    \/ Respond

SpecConfig == InitConfig /\ [][NextConfig]_vars

\* C22 (as claimed): a service whose endpoint is not configured (unset, empty
\* or the placeholder) runs in mock mode whatever the other settings are: the
\* OpenAI service never asks for a token and never calls the completion
\* endpoint; the storage service is in local mode and nothing reaches the
\* Cosmos containers.
C22_MockWhenUnconfigured ==
    /\ (openaiEnv.endpoint = "" \/ includesPlaceholder(openaiEnv.endpoint))
          => /\ openaiLocal
             /\ responses = <<>>
             /\ \A i \in Slots : pending[i].tokenRequests = 0 /\ pending[i].completions = 0
    /\ env.cosmosEndpoint \in {"", Placeholder}
          => /\ isLocalMode
             /\ preferencesContainer = EmptyMap
             /\ generationsContainer = EmptyMap

(***************************************************************************)
(* The App component: generatePosts, deleteGeneration and clearAllHistory  *)
(* over useKV('saved-generations', []).  The instance is mounted and its   *)
(* initial read has completed.                                             *)
(***************************************************************************)
GenericError == "Failed to generate posts. Please try again."
\* how the chat call of generatePosts ends: a success response, a rejected
\* fetch, a status that is not OK, or a response without success
ChatOutcomes == {"success", "networkError", "notOk", "successFalse"}
\* what an earlier session saved
EarlierGenerations == {JArr(<<>>), JArr(<<JStr(GenerationId(0))>>)}

\* an invocation: where it is suspended, the id of its generation, and the
\* list its setSavedGenerations closure captured
Generation(stage, id, isUrl, closure) ==
    [stage |-> stage, id |-> id, isUrl |-> isUrl, closure |-> closure]

InitApp ==
    /\ env \in DataEnvs
    /\ isLocalMode = LocalModeOf(env)
    /\ hookKey = "saved-generations"
    /\ \E earlier \in EarlierGenerations :
          LET empty == [ls |-> EmptyMap, prefs |-> EmptyMap, gens |-> EmptyMap]
              db == IF earlier = defaultValue THEN empty
                    ELSE setValue(empty, isLocalMode, hookKey, earlier, HookUser, FALSE).db
          IN  /\ localStorage = db.ls
              /\ preferencesContainer = db.prefs
              /\ generationsContainer = db.gens
              /\ browserStorage = (IF earlier = defaultValue THEN ""
                                   ELSE setLocalStorageValue(earlier))
              /\ data = earlier
    /\ everSet = {}
    /\ lastReq = NoReq
    /\ lastResp = NoResp
    /\ repeated = FALSE
    /\ loading = FALSE
    /\ error = JNull
    /\ hasTriedApi = TRUE
    /\ rendered = [data |-> data, hasTriedApi |-> TRUE]
    /\ effectPending = FALSE
    /\ inflight = {}
    /\ reads = 1
    /\ calls = 0
    /\ lastCall = NoCall
    /\ raced = FALSE
    /\ lastDone = [method |-> "GET", outcome |-> IF data = defaultValue THEN "null" ELSE "value"]
    /\ rejected = FALSE
    /\ cacheAtMount = ""
    /\ InitGatewayIdle
    /\ InitTokenIdle
    /\ InitAppIdle

\* generatePosts, up to its first await (content and platforms are not
\* empty: otherwise it returns at once and nothing changes)
GeneratePosts ==
    /\ ~isGenerating
    /\ generating = NoGeneration
    /\ generated < MaxGenerations
    /\ \E isUrl \in BOOLEAN :
          generating' = Generation(IF isUrl THEN "extract" ELSE "chat",
                                   GenerationId(generated + 1), isUrl, rendered.data)
    /\ isGenerating' = TRUE
    /\ appError' = ""
    /\ generated' = generated + 1
    /\ editedDuring' = JUndef
    /\ UNCHANGED <<generatedPosts, ended>>
    /\ UNCHANGED <<serverVars, hookVars, gatewayVars, tokenVars>>

\* extractContentFromUrl settles: with the extracted text or with its fallback
\* text, never with an error
ExtractReturns ==
    /\ generating.stage = "extract"
    /\ generating' = [generating EXCEPT !.stage = "chat"]
    /\ UNCHANGED <<isGenerating, appError, generatedPosts, generated, editedDuring, ended>>
    /\ UNCHANGED <<serverVars, hookVars, gatewayVars, tokenVars>>

\* the chat call settles and generatePosts runs to its end
ChatReturns ==
    /\ generating.stage = "chat"
    /\ \E outcome \in ChatOutcomes :
          /\ ended' = Append(ended, outcome)
          /\ IF outcome = "success"
             THEN LET arg == [kind |-> "updater", value |-> JUndef,
                              f |-> [op |-> "prepend", e |-> generating.id]]
                      newValue == setDataWrapper(arg, generating.closure)
                      opt == saveDataOptimistic(newValue, data, browserStorage)
                  IN  /\ calls < MaxWrites
                      /\ generatedPosts' = generating.id
                      /\ error' = opt.error
                      /\ data' = opt.data
                      /\ browserStorage' = opt.item
                      /\ inflight' = inflight \cup {Fetch(calls + 1, "POST", newValue)}
                      /\ calls' = calls + 1
                      /\ lastCall' = [kind |-> "updater", value |-> newValue,
                                      expected |-> ApplyUpdater(arg.f, data)]
                      /\ raced' = (raced \/ \E r \in inflight : r.method = "POST")
                      /\ UNCHANGED appError
             ELSE /\ appError' = GenericError
                  /\ UNCHANGED <<generatedPosts, error, data, browserStorage, inflight, calls,
                                 lastCall, raced>>
    /\ isGenerating' = FALSE
    /\ generating' = NoGeneration
    /\ UNCHANGED <<generated, editedDuring>>
    /\ UNCHANGED <<cacheAtMount, hookKey, loading, hasTriedApi, rendered, effectPending, reads,
                   lastDone, rejected>>
    /\ UNCHANGED <<serverVars, gatewayVars, tokenVars>>

\* deleteGeneration(id), for a generation the History tab shows
DeleteGeneration ==
    /\ \E i \in 1..Len(rendered.data.a) :
          LET arg == [kind |-> "updater", value |-> JUndef,
                      f |-> [op |-> "remove", e |-> rendered.data.a[i].s]]
              newValue == setDataWrapper(arg, rendered.data)
              opt == saveDataOptimistic(newValue, data, browserStorage)
          IN  /\ calls < MaxWrites
              /\ error' = opt.error
              /\ data' = opt.data
              /\ browserStorage' = opt.item
              /\ inflight' = inflight \cup {Fetch(calls + 1, "POST", newValue)}
              /\ calls' = calls + 1
              /\ lastCall' = [kind |-> "updater", value |-> newValue,
                              expected |-> ApplyUpdater(arg.f, data)]
              /\ raced' = (raced \/ \E r \in inflight : r.method = "POST")
              /\ editedDuring' = IF generating # NoGeneration THEN opt.data ELSE editedDuring
    /\ UNCHANGED <<isGenerating, appError, generatedPosts, generating, generated, ended>>
    /\ UNCHANGED <<cacheAtMount, hookKey, loading, hasTriedApi, rendered, effectPending, reads,
                   lastDone, rejected>>
    /\ UNCHANGED <<serverVars, gatewayVars, tokenVars>>

\* clearAllHistory (the button is shown while the list is not empty)
ClearAllHistory ==
    /\ Len(rendered.data.a) > 0
    /\ LET arg == [kind |-> "direct", value |-> JArr(<<>>), f |-> [op |-> "", e |-> ""]]
           newValue == setDataWrapper(arg, rendered.data)
           opt == saveDataOptimistic(newValue, data, browserStorage)
       IN  /\ calls < MaxWrites
           /\ error' = opt.error
           /\ data' = opt.data
           /\ browserStorage' = opt.item
           /\ inflight' = inflight \cup {Fetch(calls + 1, "POST", newValue)}
           /\ calls' = calls + 1
           /\ lastCall' = [kind |-> "direct", value |-> newValue, expected |-> arg.value]
           /\ raced' = (raced \/ \E r \in inflight : r.method = "POST")
           /\ editedDuring' = IF generating # NoGeneration THEN opt.data ELSE editedDuring
    /\ UNCHANGED <<isGenerating, appError, generatedPosts, generating, generated, ended>>
    /\ UNCHANGED <<cacheAtMount, hookKey, loading, hasTriedApi, rendered, effectPending, reads,
                   lastDone, rejected>>
    /\ UNCHANGED <<serverVars, gatewayVars, tokenVars>>

NextApp ==
    \/ GeneratePosts
    \/ ExtractReturns
    \/ ChatReturns
    \/ DeleteGeneration
    \/ ClearAllHistory
    \/ Render
    \/ RunEffect
    \/ Deliver
    \/ SaveComplete

SpecApp == InitApp /\ [][NextApp]_vars

(***************************************************************************)
(* Properties of generatePosts                                             *)
(***************************************************************************)
\* the ids of the generations of this session a list holds
NewIn(list) == {n \in 1..MaxGenerations : \E i \in 1..Len(list.a) : list.a[i] = JStr(GenerationId(n))}
\* generatePosts runs to its end in this step
Completes == generating.stage = "chat" /\ generating' = NoGeneration
\* how the invocation that ends in this step ends
Outcome == ended'[Len(ended')]

\* C23: the saved list gains a generation only through an invocation whose
\* chat call returned success, and that step puts the new generation at the
\* front; an invocation whose chat call failed (rejected fetch, status not OK,
\* success false) leaves the list, its cached copy and the shown posts as they
\* were, issues no write and sets the generic error message.
C23_SavedOnlyOnSuccess ==
    [][ /\ Completes =>
              IF Outcome = "success"
              THEN /\ Len(data'.a) > 0
                   /\ data'.a[1] = JStr(generating.id)
                   /\ Cached' = data'
                   /\ appError' = ""
              ELSE /\ data' = data
                   /\ browserStorage' = browserStorage
                   /\ inflight' = inflight
                   /\ generatedPosts' = generatedPosts
                   /\ appError' = GenericError
        /\ \A n \in NewIn(data') : n <= Len(ended') /\ ended'[n] = "success" ]_vars

\* a generation was saved in front of an earlier one, and the list is shown
C23_Witness ==
    /\ ended = <<"success">>
    /\ data = JArr(<<JStr(GenerationId(1)), JStr(GenerationId(0))>>)
    /\ rendered.data = data
    /\ appError = ""

\* C29 (as claimed): when a generation was deleted or the history cleared
\* while generatePosts awaited the chat call, the list after the successful
\* completion is the new generation followed by the list as it stood after
\* that delete / clear.
C29_EditsSurviveGeneration ==
    [][ (Completes /\ Outcome = "success" /\ editedDuring # JUndef)
            => data' = JArr(<<JStr(generating.id)>> \o editedDuring.a) ]_vars

====
